---- MODULE Spec2Model ----
(***************************************************************************)
(* The dialogue pipeline of app3.py: the three LangGraph nodes             *)
(* (retrieve_memory -> prompt_guidance -> chat_by_llm1), the chat handler  *)
(* that invokes the graph, and the long-term memory store they share.      *)
(*                                                                         *)
(* The script's authentication preamble (lines 30-84) is not modelled: a   *)
(* session is taken at the point where the user is signed in and the       *)
(* script waits for chat input (line 207).  (As written, line 70 names the *)
(* undefined `user_res`, so the preamble's own try block always ends in    *)
(* st.stop(); the pipeline below is modelled as it runs once that line is  *)
(* passed.)                                                                *)
(*                                                                         *)
(* Text is modelled by TLA+ strings.  The Japanese literals of the source  *)
(* are written in Latin transliteration, since the strings of a module are *)
(* restricted to ASCII; each definition quotes the original in a comment.  *)
(***************************************************************************)
EXTENDS Integers, Sequences, FiniteSets, TLC

VARIABLES
    store,        \* the Postgres store: the sequence of items put so far
    user_id,      \* per session: the signed-in user's e-mail (line 91)
    pc,           \* per session: where the script stands
    user_input,   \* per session: the text returned by st.chat_input (line 207)
    state,        \* per session: the graph's channel values (GraphState)
    response,     \* per session: chat_by_llm1_node's local `response.content`
    reply,        \* per session: the handler's `reply` (line 214)
    messages,     \* per session: st.session_state.messages
    exc,          \* per session: the exception that ended the run, if any
    calls,        \* per session: the external calls issued by the current run
    writes,       \* per session: <<writer, field>> for each channel write
    reads,        \* per session: <<reader, field>> for each read of the state
    failedAt,     \* per session: the call or node at which the run failed
    failures,     \* every <<failing step, exception>> observed so far
    runs,         \* number of runs started so far
    search_results, \* per session: retrieve_memory_node's local (line 114)
    store0        \* per session: the store as it was when the run started

vars == <<store, user_id, pc, user_input, state, response, reply, messages,
          exc, calls, writes, reads, failedAt, failures, runs, search_results,
          store0>>

-----------------------------------------------------------------------------
(* Bounds *)

MaxRuns == 2
MaxResults == 2

Sessions == {"s1", "s2"}
Users == {"alice", "bob"}
Utterances == {"hi", "tired"}
Guidances == {"g1"}
Replies == {"r1", "r2"}

NoUser == "-"
None == "None"
NoExc == "none"

-----------------------------------------------------------------------------
(* Literals of the source *)

\* line 123: "関連する記憶はありません。"
NoMemoryText == "Kanren suru kioku wa arimasen."

\* line 176: "ユーザー: "
UserLabel == "Yuuzaa: "

\* line 176: "ひびき: "
AgentLabel == "Hibiki: "

\* line 100: "こんにちは、あやさん。今日はどんな気分かな？"
Greeting == "Konnichiwa, Aya-san. Kyou wa donna kibun kana?"

\* the tools are built for one fixed user instead of the signed-in one
NamespaceFixedUser(uid) == <<"memories", "alice">>

\* lines 92, 94, 95
Namespace(uid) == <<"memories", uid>>

END == "END"

\* lines 103-107: the channels of GraphState
Fields == {"input", "retrieved_memory", "llm1_prompt_instructions", "response"}

\* what the collaborators raise when a call fails; the nodes add nothing to it
StoreErrors == {"OperationalError"}
ModelErrors == {"APIConnectionError"}

-----------------------------------------------------------------------------
(* The store's items, as the search tool returns them.                     *)
(*   content_str  : {'value': {'content': c}}                               *)
(*   no_content   : {'value': {'text': c}}                                  *)
(*   content_none : {'value': {'content': None}}                            *)

Item(uid, shape, c) == [ns |-> Namespace(uid), shape |-> shape, content |-> c]

SeedStore ==
    << Item("alice", "content_str", "a"),
       Item("alice", "content_str", "b"),
       Item("alice", "content_str", ""),
       Item("bob", "content_str", "z"),
       Item("bob", "no_content", "t"),
       Item("bob", "content_none", "") >>

\* a store holding one record without 'content'
SmallStore == << Item("alice", "no_content", "t") >>

InitStores == { << >>, SmallStore, SeedStore }

\* the record is written under one fixed key: it replaces the newest record
CreateOverwrites(st, uid, content) ==
    IF Len(st) = 0 THEN << Item(uid, "content_str", content) >>
    ELSE [st EXCEPT ![Len(st)] = Item(uid, "content_str", content)]

\* the record is written twice
CreateTwice(st, uid, content) ==
    Append(Append(st, Item(uid, "content_str", content)),
           Item(uid, "content_str", content))

\* lines 175-178: manage_tool.invoke with action "create" adds a record
Create(st, uid, content) == Append(st, Item(uid, "content_str", content))

\* sequences of distinct indices of store items of namespace ns, in any order
RECURSIVE Rankings(_, _)
Rankings(idx, n) ==
    IF n = 0 THEN { << >> }
    ELSE LET shorter == Rankings(idx, n - 1)
         IN  shorter \cup
             { Append(q, i) : q \in { r \in shorter : Len(r) = n - 1 },
                              i \in idx }

Distinct(q) == \A i, j \in 1..Len(q) : i # j => q[i] # q[j]

SearchResults(st, ns) ==
    LET idx == { i \in 1..Len(st) : st[i].ns = ns }
    IN  { [k \in 1..Len(q) |-> st[q[k]]] :
            q \in { r \in Rankings(idx, MaxResults) : Distinct(r) } }

-----------------------------------------------------------------------------
(* retrieve_memory_node, lines 116-123 *)

\* r["value"]["content"]
Extract(r) ==
    CASE r.shape = "content_str"  -> [exc |-> NoExc, isStr |-> TRUE, val |-> r.content]
      [] r.shape = "content_none" -> [exc |-> NoExc, isStr |-> FALSE, val |-> None]
      [] r.shape = "no_content"   -> [exc |-> "KeyError", isStr |-> FALSE, val |-> None]

\* str(r)
Str(r) ==
    CASE r.shape = "content_str"  -> "{'value': {'content': '" \o r.content \o "'}}"
      [] r.shape = "content_none" -> "{'value': {'content': None}}"
      [] r.shape = "no_content"   -> "{'value': {'text': '" \o r.content \o "'}}"

\* the parts are joined last to first
RECURSIVE JoinReversed(_)
JoinReversed(parts) ==
    IF Len(parts) = 0 THEN ""
    ELSE IF Len(parts) = 1 THEN parts[1]
    ELSE JoinReversed(Tail(parts)) \o "\n" \o parts[1]

\* "\n".join(parts)
RECURSIVE Join(_)
Join(parts) ==
    IF Len(parts) = 0 THEN ""
    ELSE IF Len(parts) = 1 THEN parts[1]
    ELSE parts[1] \o "\n" \o Join(Tail(parts))

\* line 117: the list comprehension, then the join
TryJoin(results) ==
    LET ex  == [i \in 1..Len(results) |-> Extract(results[i])]
        bad == { i \in 1..Len(results) : ex[i].exc # NoExc }
    IN  IF bad # {}
        THEN [exc |-> ex[CHOOSE i \in bad : \A j \in bad : i <= j].exc, text |-> ""]
        ELSE IF \E i \in 1..Len(results) : ~ex[i].isStr
        THEN [exc |-> "TypeError", text |-> ""]
        ELSE [exc |-> NoExc, text |-> Join([i \in 1..Len(results) |-> ex[i].val])]

\* the handler names KeyError only
CaughtKeyErrorOnly == {"KeyError"}

\* line 118
Caught == {"TypeError", "KeyError"}

\* the fallback is applied to each fragment by itself
MemoryTextPerFragment(results) ==
    [exc |-> NoExc,
     text |-> Join([i \in 1..Len(results) |->
                      IF Extract(results[i]).exc = NoExc /\ Extract(results[i]).isStr
                      THEN Extract(results[i]).val
                      ELSE Str(results[i])])]

\* lines 116-119
MemoryText(results) ==
    LET t == TryJoin(results)
    IN  IF t.exc = NoExc THEN t
        ELSE IF t.exc \in Caught
        THEN [exc |-> NoExc, text |-> Join([i \in 1..Len(results) |-> Str(results[i])])]
        ELSE t

\* the text is used as it is, empty or not
RetrievedMemoryAsIs(memory_text) == memory_text

\* line 123
RetrievedMemory(memory_text) ==
    IF memory_text # "" THEN memory_text ELSE NoMemoryText

\* lines 121-125
RetrieveUpdate(st, memory_text) ==
    [input |-> st["input"],
     retrieved_memory |-> RetrievedMemory(memory_text),
     llm1_prompt_instructions |-> ""]

\* the model's output is stored under retrieved_memory as well
GuidanceUpdateClobbers(st, content) ==
    [input |-> st["input"],
     retrieved_memory |-> content,
     llm1_prompt_instructions |-> content]

\* the two values carried through are stored under each other's key
GuidanceUpdateSwaps(st, content) ==
    [input |-> st["retrieved_memory"],
     retrieved_memory |-> st["input"],
     llm1_prompt_instructions |-> content]

\* lines 144-148
GuidanceUpdate(st, content) ==
    [input |-> st["input"],
     retrieved_memory |-> st["retrieved_memory"],
     llm1_prompt_instructions |-> content]

\* lines 180-183
ChatUpdate(st, content) ==
    [response |-> content,
     llm1_prompt_instructions |-> st["llm1_prompt_instructions"]]

\* the two lines of the record are run together
MemoryContentOneLine(input, content) ==
    UserLabel \o input \o AgentLabel \o content

\* line 176
MemoryContent(input, content) ==
    UserLabel \o input \o "\n" \o AgentLabel \o content

-----------------------------------------------------------------------------
(* build_graph, lines 186-195 *)

Nodes == {"retrieve_memory", "prompt_guidance", "chat_by_llm1"}

\* line 191
EntryPoint == "retrieve_memory"

\* the edge out of retrieve_memory leads to chat_by_llm1, which leads to END
NextNodeSkipsGuidance(n) ==
    CASE n = "retrieve_memory" -> "chat_by_llm1"
      [] n = "prompt_guidance" -> "chat_by_llm1"
      [] n = "chat_by_llm1"    -> END

\* the two later nodes are wired in the opposite order
NextNodeChatFirst(n) ==
    CASE n = "retrieve_memory" -> "chat_by_llm1"
      [] n = "chat_by_llm1"    -> "prompt_guidance"
      [] n = "prompt_guidance" -> END

\* lines 192-194
NextNode(n) ==
    CASE n = "retrieve_memory" -> "prompt_guidance"
      [] n = "prompt_guidance" -> "chat_by_llm1"
      [] n = "chat_by_llm1"    -> END

\* the state keys a node reads before its first external call
NodeReads(n) ==
    CASE n = "retrieve_memory" -> {"input"}
      [] n = "prompt_guidance" -> {"input", "retrieved_memory"}
      [] n = "chat_by_llm1"    -> {"llm1_prompt_instructions", "retrieved_memory", "input"}

\* the first external call of a node, with its arguments
NodeCall(n, st, ns) ==
    CASE n = "retrieve_memory" ->
            [op |-> "search", ns |-> ns, args |-> <<st["input"]>>]
      [] n = "prompt_guidance" ->
            [op |-> "llm2", ns |-> ns,
             args |-> <<st["input"], st["retrieved_memory"]>>]
      [] n = "chat_by_llm1" ->
            [op |-> "llm1", ns |-> ns,
             args |-> <<st["llm1_prompt_instructions"], st["retrieved_memory"],
                        st["input"]>>]

\* a node's returned mapping is written to the channels it names
Merge(st, upd) ==
    [f \in (DOMAIN st) \cup (DOMAIN upd) |->
        IF f \in DOMAIN upd THEN upd[f] ELSE st[f]]

Written(n, upd) == { <<n, f>> : f \in DOMAIN upd }
ReadBy(n, fs) == { <<n, f>> : f \in fs }

HumanMessage(c) == [role |-> "human", content |-> c]
AIMessage(c) == [role |-> "ai", content |-> c]

-----------------------------------------------------------------------------
(* Initial state: the script waits for chat input *)

InitCommon ==
    /\ store \in InitStores
    /\ pc = [s \in Sessions |-> IF user_id[s] = NoUser THEN "closed" ELSE "idle"]
    /\ user_input = [s \in Sessions |-> None]
    /\ state = [s \in Sessions |-> << >>]
    /\ response = [s \in Sessions |-> None]
    /\ reply = [s \in Sessions |-> None]
    /\ messages = [s \in Sessions |-> << AIMessage(Greeting) >>]
    /\ exc = [s \in Sessions |-> NoExc]
    /\ calls = [s \in Sessions |-> << >>]
    /\ writes = [s \in Sessions |-> {}]
    /\ reads = [s \in Sessions |-> {}]
    /\ failedAt = [s \in Sessions |-> NoExc]
    /\ failures = {}
    /\ runs = 0
    /\ search_results = [s \in Sessions |-> << >>]
    /\ store0 = [s \in Sessions |-> store]

\* one browser session
Init ==
    /\ user_id \in { f \in [Sessions -> Users \cup {NoUser}] :
                        f["s1"] # NoUser /\ f["s2"] = NoUser }
    /\ InitCommon

-----------------------------------------------------------------------------
(* Steps *)

\* an exception leaves graph.invoke and the script run (no handler, line 213)
Raise(s, where, e) ==
    /\ pc' = [pc EXCEPT ![s] = "failed"]
    /\ exc' = [exc EXCEPT ![s] = e]
    /\ failedAt' = [failedAt EXCEPT ![s] = where]
    /\ failures' = failures \cup { <<where, e>> }

\* Control reaches node n (or END) with channel values st.
\* msgs, cl, rd: the session's messages, calls and reads so far.
Enter(s, n, st, msgs, cl, rd) ==
    IF n = END
    THEN \* lines 214-217: reply = result["response"]; append; display
         IF "response" \in DOMAIN st
         THEN /\ pc' = [pc EXCEPT ![s] = END]
              /\ reply' = [reply EXCEPT ![s] = st["response"]]
              /\ messages' = [messages EXCEPT
                                ![s] = Append(msgs, AIMessage(st["response"]))]
              /\ calls' = [calls EXCEPT ![s] = cl]
              /\ reads' = [reads EXCEPT ![s] = rd \cup ReadBy("caller", {"response"})]
              /\ UNCHANGED <<exc, failedAt, failures>>
         ELSE /\ Raise(s, "caller", "KeyError")
              /\ messages' = [messages EXCEPT ![s] = msgs]
              /\ calls' = [calls EXCEPT ![s] = cl]
              /\ reads' = [reads EXCEPT ![s] = rd]
              /\ UNCHANGED reply
    ELSE IF NodeReads(n) \subseteq DOMAIN st
         THEN /\ pc' = [pc EXCEPT ![s] = n]
              /\ calls' = [calls EXCEPT
                             ![s] = Append(cl, NodeCall(n, st, Namespace(user_id[s])))]
              /\ reads' = [reads EXCEPT ![s] = rd \cup ReadBy(n, NodeReads(n))]
              /\ messages' = [messages EXCEPT ![s] = msgs]
              /\ UNCHANGED <<exc, failedAt, failures, reply>>
         ELSE /\ Raise(s, n, "KeyError")
              /\ messages' = [messages EXCEPT ![s] = msgs]
              /\ calls' = [calls EXCEPT ![s] = cl]
              /\ reads' = [reads EXCEPT ![s] = rd]
              /\ UNCHANGED reply

\* the script is run again from the top and waits at st.chat_input (line 207);
\* only st.session_state and the store outlive the previous run
Rerun(s) ==
    /\ pc[s] \in {END, "failed"}
    /\ runs < MaxRuns
    /\ pc' = [pc EXCEPT ![s] = "idle"]
    /\ user_input' = [user_input EXCEPT ![s] = None]
    /\ state' = [state EXCEPT ![s] = << >>]
    /\ response' = [response EXCEPT ![s] = None]
    /\ reply' = [reply EXCEPT ![s] = None]
    /\ exc' = [exc EXCEPT ![s] = NoExc]
    /\ failedAt' = [failedAt EXCEPT ![s] = NoExc]
    /\ calls' = [calls EXCEPT ![s] = << >>]
    /\ writes' = [writes EXCEPT ![s] = {}]
    /\ reads' = [reads EXCEPT ![s] = {}]
    /\ search_results' = [search_results EXCEPT ![s] = << >>]
    /\ UNCHANGED <<store, user_id, messages, failures, runs, store0>>

\* lines 207-213, then the entry node up to search_tool.invoke (line 114)
Submit(s, u) ==
    /\ pc[s] = "idle"
    /\ runs < MaxRuns
    /\ runs' = runs + 1
    /\ user_input' = [user_input EXCEPT ![s] = u]
    /\ state' = [state EXCEPT ![s] = [input |-> u]]
    /\ writes' = [writes EXCEPT ![s] = Written("caller", [input |-> u])]
    /\ Enter(s, EntryPoint, [input |-> u],
             Append(messages[s], HumanMessage(u)), << >>, {})
    /\ store0' = [store0 EXCEPT ![s] = store]
    /\ UNCHANGED <<store, user_id, response, search_results>>

\* line 114 returns; lines 116-125; the update is written; the next node starts
SearchReturn(s, results) ==
    /\ pc[s] = "retrieve_memory"
    /\ LET m == MemoryText(results)
       IN  IF m.exc = NoExc
           THEN LET upd == RetrieveUpdate(state[s], m.text)
                    st  == Merge(state[s], upd)
                IN  /\ state' = [state EXCEPT ![s] = st]
                    /\ writes' = [writes EXCEPT
                                    ![s] = @ \cup Written("retrieve_memory", upd)]
                    /\ Enter(s, NextNode("retrieve_memory"), st,
                             messages[s], calls[s], reads[s])
           ELSE /\ Raise(s, "retrieve_memory", m.exc)
                /\ UNCHANGED <<state, writes, messages, calls, reads, reply>>
    /\ search_results' = [search_results EXCEPT ![s] = results]
    /\ UNCHANGED <<store, user_id, user_input, response, runs, store0>>

\* search_tool.invoke raises (line 114)
SearchFail(s, e) ==
    /\ pc[s] = "retrieve_memory"
    /\ Raise(s, "search", e)
    /\ UNCHANGED <<store, user_id, user_input, state, response, reply, messages,
                   calls, writes, reads, runs, search_results, store0>>

\* llm2.invoke returns (line 143); lines 144-148; the next node starts
GuidanceReturn(s, content) ==
    /\ pc[s] = "prompt_guidance"
    /\ LET upd == GuidanceUpdate(state[s], content)
           st  == Merge(state[s], upd)
       IN  /\ state' = [state EXCEPT ![s] = st]
           /\ writes' = [writes EXCEPT ![s] = @ \cup Written("prompt_guidance", upd)]
           /\ Enter(s, NextNode("prompt_guidance"), st,
                    messages[s], calls[s], reads[s])
    /\ UNCHANGED <<store, user_id, user_input, response, runs, search_results,
                   store0>>

\* the failure of llm2.invoke is swallowed and the next node runs without guidance
GuidanceFailContinues(s, e) ==
    /\ pc[s] = "prompt_guidance"
    /\ Enter(s, NextNode("prompt_guidance"), state[s], messages[s], calls[s], reads[s])
    /\ UNCHANGED <<store, user_id, user_input, state, response, writes, runs,
                   search_results, store0>>

\* on a failure of llm2.invoke the graph is started again from its entry node
GuidanceFailRestarts(s, e) ==
    /\ pc[s] = "prompt_guidance"
    /\ pc' = [pc EXCEPT ![s] = EntryPoint]
    /\ state' = [state EXCEPT ![s] = [input |-> user_input[s]]]
    /\ calls' = [calls EXCEPT ![s] = <<calls[s][1]>>]
    /\ writes' = [writes EXCEPT ![s] = Written("caller", [input |-> user_input[s]])]
    /\ reads' = [reads EXCEPT ![s] = ReadBy(EntryPoint, NodeReads(EntryPoint))]
    /\ search_results' = [search_results EXCEPT ![s] = << >>]
    /\ UNCHANGED <<store, user_id, user_input, response, reply, messages, exc,
                   failedAt, failures, runs, store0>>

\* llm2.invoke raises (line 143)
GuidanceFail(s, e) ==
    /\ pc[s] = "prompt_guidance"
    /\ Raise(s, "llm2", e)
    /\ UNCHANGED <<store, user_id, user_input, state, response, reply, messages,
                   calls, writes, reads, runs, search_results, store0>>

\* llm1.invoke returns (line 172); manage_tool.invoke is issued (lines 175-178)
ChatReturn(s, content) ==
    /\ pc[s] = "chat_by_llm1"
    /\ response' = [response EXCEPT ![s] = content]
    /\ pc' = [pc EXCEPT ![s] = "manage_memory"]
    /\ calls' = [calls EXCEPT
                   ![s] = Append(@, [op |-> "create", ns |-> Namespace(user_id[s]),
                                     args |-> <<MemoryContent(state[s]["input"], content)>>])]
    /\ reads' = [reads EXCEPT ![s] = @ \cup ReadBy("chat_by_llm1", {"input"})]
    /\ UNCHANGED <<store, user_id, user_input, state, reply, messages, exc,
                   writes, failedAt, failures, runs, search_results, store0>>

\* the failure of llm1.invoke is swallowed and the exchange is stored anyway
ChatFailStillStores(s, e) ==
    /\ pc[s] = "chat_by_llm1"
    /\ response' = [response EXCEPT ![s] = ""]
    /\ pc' = [pc EXCEPT ![s] = "manage_memory"]
    /\ calls' = [calls EXCEPT
                   ![s] = Append(@, [op |-> "create", ns |-> Namespace(user_id[s]),
                                     args |-> <<MemoryContent(state[s]["input"], "")>>])]
    /\ UNCHANGED <<store, user_id, user_input, state, reply, messages, exc, reads,
                   writes, failedAt, failures, runs, search_results, store0>>

\* llm1.invoke raises (line 172)
ChatFail(s, e) ==
    /\ pc[s] = "chat_by_llm1"
    /\ Raise(s, "llm1", e)
    /\ UNCHANGED <<store, user_id, user_input, state, response, reply, messages,
                   calls, writes, reads, runs, search_results, store0>>

\* the content to store is held in one place shared by all sessions: a session
\* stores what the other session has pending
CreateReturnSharedContent(s) ==
    /\ pc[s] = "manage_memory"
    /\ LET pending == { t \in Sessions \ {s} : pc[t] = "manage_memory" }
           from    == IF pending = {} THEN s ELSE CHOOSE t \in pending : TRUE
       IN  store' = Create(store, user_id[s], calls[from][Len(calls[from])].args[1])
    /\ LET upd == ChatUpdate(state[s], response[s])
           st  == Merge(state[s], upd)
       IN  /\ state' = [state EXCEPT ![s] = st]
           /\ writes' = [writes EXCEPT ![s] = @ \cup Written("chat_by_llm1", upd)]
           /\ Enter(s, NextNode("chat_by_llm1"), st, messages[s], calls[s],
                    reads[s] \cup ReadBy("chat_by_llm1", {"llm1_prompt_instructions"}))
    /\ UNCHANGED <<user_id, user_input, response, runs, search_results, store0>>

\* manage_tool.invoke returns: the record is in the store; lines 180-183;
\* the graph ends and the handler takes the reply (lines 214-217)
CreateReturn(s) ==
    /\ pc[s] = "manage_memory"
    /\ store' = Create(store, user_id[s], calls[s][Len(calls[s])].args[1])
    /\ LET upd == ChatUpdate(state[s], response[s])
           st  == Merge(state[s], upd)
       IN  /\ state' = [state EXCEPT ![s] = st]
           /\ writes' = [writes EXCEPT ![s] = @ \cup Written("chat_by_llm1", upd)]
           /\ Enter(s, NextNode("chat_by_llm1"), st, messages[s], calls[s],
                    reads[s] \cup ReadBy("chat_by_llm1", {"llm1_prompt_instructions"}))
    /\ UNCHANGED <<user_id, user_input, response, runs, search_results, store0>>

\* manage_tool.invoke raises (line 175)
CreateFail(s, e) ==
    /\ pc[s] = "manage_memory"
    /\ Raise(s, "create", e)
    /\ UNCHANGED <<store, user_id, user_input, state, response, reply, messages,
                   calls, writes, reads, runs, search_results, store0>>

Next ==
    \E s \in Sessions :
        \/ Rerun(s)
        \/ \E u \in Utterances : Submit(s, u)
        \/ \E results \in SearchResults(store, Namespace(user_id[s])) :
              SearchReturn(s, results)
        \/ \E e \in StoreErrors : SearchFail(s, e)
        \/ \E g \in Guidances : GuidanceReturn(s, g)
        \/ \E e \in ModelErrors : GuidanceFail(s, e)
        \/ \E r \in Replies : ChatReturn(s, r)
        \/ \E e \in ModelErrors : ChatFail(s, e)
        \/ CreateReturn(s)
        \/ \E e \in StoreErrors : CreateFail(s, e)

Spec == Init /\ [][Next]_vars

\* the pending external call of session s returns or raises
CallEnds(s) ==
    \/ \E results \in SearchResults(store, Namespace(user_id[s])) :
          SearchReturn(s, results)
    \/ \E e \in StoreErrors : SearchFail(s, e)
    \/ \E g \in Guidances : GuidanceReturn(s, g)
    \/ \E e \in ModelErrors : GuidanceFail(s, e)
    \/ \E r \in Replies : ChatReturn(s, r)
    \/ \E e \in ModelErrors : ChatFail(s, e)
    \/ CreateReturn(s)
    \/ \E e \in StoreErrors : CreateFail(s, e)

\* two browser sessions of one user, on a store that starts empty
ConcInit ==
    /\ user_id \in { f \in [Sessions -> Users] : f["s1"] = f["s2"] }
    /\ InitCommon
    /\ store = << >>

ConcSpec == ConcInit /\ [][Next]_vars

\* every blocking call (lines 114, 143, 172, 175) eventually returns or raises
\* (started from the smaller stores)
LiveInit == Init /\ store # SeedStore

LiveSpec ==
    LiveInit /\ [][Next]_vars /\ \A s \in Sessions : WF_vars(CallEnds(s))

-----------------------------------------------------------------------------
(* Properties *)

\* positions of the calls of kind op in the current run of session s
Pos(s, op) == { i \in 1..Len(calls[s]) : calls[s][i].op = op }

IsStageCall(c) == c.op \in {"search", "llm2", "llm1"}

IsPrefix(p, q) == Len(p) <= Len(q) /\ \A i \in 1..Len(p) : p[i] = q[i]

StageOps(s) ==
    LET sel == SelectSeq(calls[s], IsStageCall)
    IN  [i \in 1..Len(sel) |-> sel[i].op]

\* C1: in every run the store search (with the utterance as its query) is
\* called before the planning model, and the planning model before the
\* response model; a completed run has made exactly these three stage calls in
\* this order, whatever the utterance and the store hold.
C1_StageCallOrder ==
    \A s \in Sessions :
        /\ IsPrefix(StageOps(s), <<"search", "llm2", "llm1">>)
        /\ \A i \in Pos(s, "search") : calls[s][i].args = <<user_input[s]>>
        /\ pc[s] = END => StageOps(s) = <<"search", "llm2", "llm1">>

C1_Witness ==
    \E s \in Sessions :
        /\ pc[s] = END
        /\ user_input[s] = "tired"
        /\ Len(search_results[s]) = 2
        /\ StageOps(s) = <<"search", "llm2", "llm1">>

\* C2 (as amended): a run that ends successfully has issued exactly one create
\* call, whose content is "ユーザー: " + utterance + newline + "ひびき: " + reply,
\* for the run's utterance and the reply it returns.
C2_OneCreateWithExchange ==
    \A s \in Sessions :
        pc[s] = END =>
            /\ Cardinality(Pos(s, "create")) = 1
            /\ \A i \in Pos(s, "create") :
                  calls[s][i].args =
                      << "Yuuzaa: " \o user_input[s] \o "\n" \o "Hibiki: " \o reply[s] >>

\* C2 as stated: the content is "user: " + utterance + newline + "agent: " + reply.
C2_AsStated ==
    \A s \in Sessions :
        pc[s] = END =>
            /\ Cardinality(Pos(s, "create")) = 1
            /\ \A i \in Pos(s, "create") :
                  calls[s][i].args =
                      << "user: " \o user_input[s] \o "\n" \o "agent: " \o reply[s] >>

C2_Witness ==
    \E s \in Sessions :
        /\ pc[s] = END
        /\ user_input[s] = "hi"
        /\ reply[s] = "r2"
        /\ store # << >>
        /\ store[Len(store)].content = "Yuuzaa: hi\nHibiki: r2"

\* C3: when the planning model call fails, the run has not called the response
\* model and has created no record: the store is as it was when the run began.
C3_PlanningFailureNoEffect ==
    \A s \in Sessions :
        failedAt[s] = "llm2" =>
            /\ Pos(s, "llm1") = {}
            /\ Pos(s, "create") = {}
            /\ store = store0[s]

C3_Witness ==
    \E s \in Sessions :
        /\ failedAt[s] = "llm2"
        /\ pc[s] = "failed"
        /\ Pos(s, "llm2") # {}
        /\ store # << >>

\* C4: a create is attempted only after the response model has returned its
\* reply, and before the run returns; a run whose response model call failed
\* has attempted no create.
C4_CreateAfterReply ==
    \A s \in Sessions :
        /\ \A j \in Pos(s, "create") :
              /\ response[s] \in Replies
              /\ \E i \in Pos(s, "llm1") : i < j
        /\ pc[s] = END => Pos(s, "create") # {}
        /\ failedAt[s] = "llm1" => Pos(s, "create") = {}

C4_Witness ==
    \E s \in Sessions :
        /\ pc[s] = "manage_memory"
        /\ response[s] = "r1"
        /\ Pos(s, "create") = {4}

\* C5: when the create call fails after a reply was produced, the reply is still
\* delivered (it is the last turn of the displayed conversation) and the run is
\* not reported as a success.
C5_ReplyKeptOnWriteFailure ==
    \A s \in Sessions :
        failedAt[s] = "create" =>
            /\ messages[s][Len(messages[s])] = AIMessage(response[s])
            /\ pc[s] # END

\* C6: a failing search, planning call, response call or create ends the run in
\* a failure, and what the caller receives identifies the step that failed: no
\* two different failing steps give the caller the same outcome.
C6_FailureIdentifiesStage ==
    /\ \A s \in Sessions : failedAt[s] # NoExc => pc[s] = "failed" /\ exc[s] # NoExc
    /\ \A a, b \in failures : a[2] = b[2] => a[1] = b[1]

Retrieved(s) == "retrieved_memory" \in DOMAIN state[s]

\* C7 (as amended): when the search returns the empty sequence, the
\* retrieved_memory set by the retrieval node, and passed to both models, is
\* exactly the sentinel "関連する記憶はありません。".
C7_EmptySearchGivesSentinel ==
    \A s \in Sessions :
        (Retrieved(s) /\ search_results[s] = << >>) =>
            /\ state[s]["retrieved_memory"] = "Kanren suru kioku wa arimasen."
            /\ \A i \in Pos(s, "llm2") \cup Pos(s, "llm1") :
                  "Kanren suru kioku wa arimasen." \in
                      { calls[s][i].args[k] : k \in 1..Len(calls[s][i].args) }

\* C7 as stated: the sentinel is "no related memory found".
C7_AsStated ==
    \A s \in Sessions :
        (Retrieved(s) /\ search_results[s] = << >>) =>
            state[s]["retrieved_memory"] = "no related memory found"

C7_Witness ==
    \E s \in Sessions :
        /\ pc[s] = END
        /\ search_results[s] = << >>
        /\ store0[s] # << >>
        /\ user_id[s] = "alice"
        /\ state[s]["retrieved_memory"] = "Kanren suru kioku wa arimasen."

WellFormed(results) ==
    \A i \in 1..Len(results) : results[i].shape = "content_str"

Contents(results) == [i \in 1..Len(results) |-> results[i].content]

\* c1, ..., cn on n lines
RECURSIVE Lines(_)
Lines(cs) ==
    IF Len(cs) = 1 THEN cs[1]
    ELSE Lines(SubSeq(cs, 1, Len(cs) - 1)) \o "\n" \o cs[Len(cs)]

\* C8 (as amended): for a non-empty sequence of well-formed records whose
\* contents joined with newlines give a non-empty text, retrieved_memory is that
\* text, in the order the store returned them (a, b gives "a\nb"); for the one
\* record with empty content, whose join is empty, it is the sentinel.
C8_JoinInStoreOrder ==
    \A s \in Sessions :
        (Retrieved(s) /\ search_results[s] # << >> /\ WellFormed(search_results[s])) =>
            /\ Lines(Contents(search_results[s])) # "" =>
                  state[s]["retrieved_memory"] = Lines(Contents(search_results[s]))
            /\ Contents(search_results[s]) = <<"a", "b">> =>
                  state[s]["retrieved_memory"] = "a\nb"
            /\ Lines(Contents(search_results[s])) = "" =>
                  state[s]["retrieved_memory"] = NoMemoryText

\* C8 as stated: for every non-empty sequence of well-formed records,
\* retrieved_memory is the contents joined with newlines.
C8_AsStated ==
    \A s \in Sessions :
        (Retrieved(s) /\ search_results[s] # << >> /\ WellFormed(search_results[s])) =>
            state[s]["retrieved_memory"] = Lines(Contents(search_results[s]))

C8_Witness ==
    \E s \in Sessions :
        /\ Retrieved(s)
        /\ Contents(search_results[s]) = <<"b", "a">>
        /\ WellFormed(search_results[s])
        /\ state[s]["retrieved_memory"] = "b\na"

Malformed(results) == ~WellFormed(results)

\* C9: no search result, well-formed or not, makes the retrieval node fail: once
\* the search has returned, retrieved_memory is set and the planning model has
\* been called.
C9_MalformedNeverFails ==
    \A s \in Sessions :
        /\ failedAt[s] # "retrieve_memory"
        /\ (Pos(s, "search") # {} /\ pc[s] # "retrieve_memory" /\ failedAt[s] # "search")
              => Retrieved(s) /\ Pos(s, "llm2") # {}

C9_Witness ==
    \E s \in Sessions :
        /\ pc[s] = "prompt_guidance"
        /\ Len(search_results[s]) = 2
        /\ search_results[s][1].shape = "content_none"
        /\ search_results[s][2].shape = "no_content"
        /\ Retrieved(s)

\* the stage that produces each field
Producer(f) ==
    CASE f = "input"                    -> "caller"
      [] f = "retrieved_memory"         -> "retrieve_memory"
      [] f = "llm1_prompt_instructions" -> "prompt_guidance"
      [] f = "response"                 -> "chat_by_llm1"

Writers(s, f) == { w \in Nodes \cup {"caller"} : <<w, f>> \in writes[s] }

\* the stage whose code runs in the step that leaves position p
Running(p) ==
    CASE p = "idle" -> "caller"
      [] p = "manage_memory" -> "chat_by_llm1"
      [] OTHER -> p

ReadsAfterProduced ==
    \A s \in Sessions :
        \A rf \in reads[s] : <<Producer(rf[2]), rf[2]>> \in writes[s]

ValueSetByProducer ==
    \A s \in Sessions :
        \A f \in DOMAIN state'[s] :
            (f \notin DOMAIN state[s] \/ state'[s][f] # state[s][f]) =>
                \/ Running(pc[s]) = Producer(f)
                \/ /\ f = "llm1_prompt_instructions"
                   /\ pc[s] = "retrieve_memory"
                   /\ f \notin DOMAIN state[s]
                   /\ state'[s][f] = ""

\* C10 (as amended): the value of each field is produced by exactly one stage
\* (input by the caller, retrieved_memory by retrieval, the guidance by
\* planning, the reply by response): a stage that writes a field it did not
\* produce writes back the value the field holds, except that retrieval
\* initialises the guidance to the empty string; and no stage reads a field
\* before its producer has written it.
C10_ValueProducedByOneStage ==
    [] ReadsAfterProduced /\ [][ValueSetByProducer]_vars

\* C10 as stated: each field is written by exactly one stage, and is not read
\* before that stage has run.
C10_AsStated ==
    /\ ReadsAfterProduced
    /\ \A s \in Sessions : \A f \in Fields : Cardinality(Writers(s, f)) <= 1

C10_Witness ==
    \E s \in Sessions :
        /\ pc[s] = END
        /\ Writers(s, "input") = {"caller", "retrieve_memory", "prompt_guidance"}
        /\ Writers(s, "llm1_prompt_instructions") = Nodes
        /\ state[s]["llm1_prompt_instructions"] = "g1"

InputIsUtterance ==
    \A s \in Sessions :
        "input" \in DOMAIN state[s] => state[s]["input"] = user_input[s]

RetrievedMemoryKept ==
    \A s \in Sessions :
        (Retrieved(s) /\ "retrieved_memory" \in DOMAIN state'[s]) =>
            state'[s]["retrieved_memory"] = state[s]["retrieved_memory"]

\* C11: in every state of a run the input field is the utterance the run was
\* started with, and once retrieval has set retrieved_memory, every later state
\* of the run holds the same value.
C11_InputAndMemoryUnchanged ==
    [] InputIsUtterance /\ [][RetrievedMemoryKept]_vars

C11_Witness ==
    \E s \in Sessions :
        /\ pc[s] = END
        /\ user_input[s] = "tired"
        /\ state[s]["input"] = "tired"
        /\ state[s]["retrieved_memory"] = "a\nb"
        /\ Writers(s, "retrieved_memory") = {"retrieve_memory", "prompt_guidance"}

\* the stage of the run that a position of the script belongs to
Phase(p) ==
    CASE p = "idle"            -> "Idle"
      [] p = "retrieve_memory" -> "Retrieving"
      [] p = "prompt_guidance" -> "Planning"
      [] p = "chat_by_llm1"    -> "Responding"
      [] p = "manage_memory"   -> "Responding"
      [] p = END               -> "Done"
      [] p = "failed"          -> "Failed"
      [] OTHER                 -> "Closed"

\* the calls whose failure ends each stage
StageCalls(ph) ==
    CASE ph = "Retrieving" -> {"search", "retrieve_memory"}
      [] ph = "Planning"   -> {"llm2"}
      [] ph = "Responding" -> {"llm1", "create"}
      [] OTHER             -> {}

StageStep(s) ==
    LET from == Phase(pc[s])
        to   == Phase(pc'[s])
    IN  from # to =>
          \/ from = "Idle" /\ to = "Retrieving"
          \/ /\ from = "Retrieving" /\ to = "Planning"
             /\ <<"retrieve_memory", "retrieved_memory">> \in writes'[s]
          \/ /\ from = "Planning" /\ to = "Responding"
             /\ <<"prompt_guidance", "llm1_prompt_instructions">> \in writes'[s]
          \/ /\ from = "Responding" /\ to = "Done"
             /\ <<"chat_by_llm1", "response">> \in writes'[s]
             /\ Len(store') = Len(store) + 1
          \/ /\ to = "Failed"
             /\ failedAt'[s] \in StageCalls(from)
          \* the next run is a fresh instance
          \/ from \in {"Done", "Failed"} /\ to = "Idle"

EachCallOnce ==
    \A s \in Sessions :
        \A op \in {"search", "llm2", "llm1", "create"} : Cardinality(Pos(s, op)) <= 1

\* C12: a run moves only along Idle -> Retrieving -> Planning -> Responding ->
\* Done, or from a stage to Failed at a call of that stage; it enters the next
\* stage only when the stage before has produced its output, issues each call
\* at most once, and skips no stage.
C12_SequentialStages ==
    [] EachCallOnce /\ [][\A s \in Sessions : StageStep(s)]_vars

C12_Witness ==
    \E s \in Sessions :
        /\ pc[s] = "failed"
        /\ failedAt[s] = "create"
        /\ Len(calls[s]) = 4
        /\ runs = 2

InRun(s) ==
    pc[s] \in {"retrieve_memory", "prompt_guidance", "chat_by_llm1", "manage_memory"}

Terminal(s) == pc[s] \in {END, "failed"}

\* C13: when every external call eventually returns or raises, a run that has
\* started eventually reaches Done or Failed; in every other state of the run
\* a call is pending, so the run stops nowhere else.
C13_RunTerminates ==
    /\ \A s \in Sessions : [](InRun(s) => ENABLED CallEnds(s))
    /\ \A s \in Sessions : InRun(s) ~> Terminal(s)

C13_Witness ==
    \E s \in Sessions :
        /\ Terminal(s)
        /\ runs = MaxRuns
        /\ Len(calls[s]) >= 2
        /\ ~ ENABLED CallEnds(s)

StoreStep ==
    /\ IsPrefix(store, store')
    /\ store' # store =>
          /\ Len(store') = Len(store) + 1
          /\ \E s \in Sessions :
                /\ pc[s] = "manage_memory"
                /\ pc'[s] = END
                /\ response[s] \in Replies
    /\ \A s \in Sessions :
          (Phase(pc[s]) \in {"Retrieving", "Planning"} /\ pc'[s] # pc[s]) =>
              store' = store

\* C14: over any sequence of runs the store only grows at its end: no existing
\* record is changed or removed, the steps of the retrieval and planning stages
\* leave it unchanged, and a record is added only by the response stage, after
\* its reply.
C14_StoreAppendOnly == [][StoreStep]_vars

C14_Witness ==
    /\ Len(store) = Len(SeedStore) + 1
    /\ SubSeq(store, 1, Len(SeedStore)) = SeedStore
    /\ runs = 2
    /\ \E s \in Sessions : pc[s] = "failed" /\ failedAt[s] = "llm2"

Range(q) == { q[i] : i \in 1..Len(q) }

\* the records that were in the store before the first run
InitialItems == UNION { Range(st) : st \in InitStores }

NewRecords == { i \in 1..Len(store) : store[i] \notin InitialItems }

\* line 216 adds an agent turn for each run that reached the end of the graph
Successes(s) ==
    Cardinality({ i \in 1..Len(messages[s]) : messages[s][i].role = "ai" }) - 1

FreshRun ==
    \A s \in Sessions :
        /\ pc[s] = "idle" =>
              /\ state[s] = << >>
              /\ calls[s] = << >>
              /\ response[s] = None /\ reply[s] = None
              /\ search_results[s] = << >>
        /\ pc[s] = "retrieve_memory" =>
              /\ state[s] = [input |-> user_input[s]]
              /\ calls[s] = << [op |-> "search", ns |-> <<"memories", user_id[s]>>,
                                 args |-> <<user_input[s]>>] >>

\* C15: after any number of runs in sequence for one user, the store holds
\* exactly one new record for each run that reached Done, each a record of its
\* own; and a run starts from the utterance alone: nothing of the previous
\* run's pipeline state is left when the next one begins.
C15_OneRecordPerSuccess ==
    /\ Cardinality(NewRecords) = Successes("s1") + Successes("s2")
    /\ FreshRun

C15_Witness ==
    /\ pc["s1"] = END
    /\ Successes("s1") = 2
    /\ Cardinality(NewRecords) = 2
    /\ store[Len(store)].content = "Yuuzaa: tired\nHibiki: r1"
    /\ store[Len(store) - 1].content = "Yuuzaa: hi\nHibiki: r2"

OwnNamespace(s) == <<"memories", user_id[s]>>

\* C16: every search and every create of a run for user uid is issued on the
\* namespace ("memories", uid): the records a run retrieves and the record it
\* creates all lie in its own user's namespace, never in another user's.
C16_OwnNamespaceOnly ==
    \A s \in Sessions :
        /\ \A i \in Pos(s, "search") \cup Pos(s, "create") :
              calls[s][i].ns = OwnNamespace(s)
        /\ \A k \in 1..Len(search_results[s]) :
              search_results[s][k].ns = OwnNamespace(s)
        /\ pc[s] = END =>
              /\ store[Len(store)].ns = OwnNamespace(s)
              /\ { i \in 1..Len(store) : store[i].ns # OwnNamespace(s) }
                    = { i \in 1..Len(store0[s]) : store0[s][i].ns # OwnNamespace(s) }

C16_Witness ==
    \E s \in Sessions :
        /\ pc[s] = END
        /\ user_id[s] = "bob"
        /\ Len(search_results[s]) = 2
        /\ \E i \in 1..Len(store) : store[i].ns = <<"memories", "alice">>
        /\ store[Len(store)].ns = <<"memories", "bob">>

Mixed(results) ==
    /\ \E i \in 1..Len(results) : results[i].shape = "content_str"
    /\ \E i \in 1..Len(results) : results[i].shape # "content_str"

\* C17 (as amended): when the search returns well-formed and malformed
\* fragments together, retrieved_memory is the newline join, in store order, of
\* the string form of every raw fragment, the well-formed ones included.
C17_MixedAllStringified ==
    \A s \in Sessions :
        (Retrieved(s) /\ Mixed(search_results[s])) =>
            /\ state[s]["retrieved_memory"] =
                  Lines([i \in 1..Len(search_results[s]) |-> Str(search_results[s][i])])
            /\ (Len(search_results[s]) = 2
                  /\ search_results[s][1] = Item("bob", "content_str", "z")
                  /\ search_results[s][2] = Item("bob", "no_content", "t")) =>
                  state[s]["retrieved_memory"] =
                      "{'value': {'content': 'z'}}\n{'value': {'text': 't'}}"

\* C17 as stated: each malformed fragment appears as its string form and each
\* well-formed fragment as its content.
C17_AsStated ==
    \A s \in Sessions :
        (Retrieved(s) /\ Mixed(search_results[s])) =>
            state[s]["retrieved_memory"] =
                Lines([i \in 1..Len(search_results[s]) |->
                         IF search_results[s][i].shape = "content_str"
                         THEN search_results[s][i].content
                         ELSE Str(search_results[s][i])])

C17_Witness ==
    \E s \in Sessions :
        /\ Retrieved(s)
        /\ Len(search_results[s]) = 2
        /\ search_results[s][1].shape = "content_none"
        /\ search_results[s][2].shape = "content_str"
        /\ state[s]["retrieved_memory"] =
              "{'value': {'content': None}}\n{'value': {'content': 'z'}}"

\* the greeting followed by complete exchanges: a user turn, then an agent turn
CompleteExchanges(m) ==
    /\ Len(m) % 2 = 1
    /\ \A i \in 2..Len(m) : m[i].role = (IF i % 2 = 0 THEN "human" ELSE "ai")

\* C18: a failed run leaves the conversation history as it was before the
\* utterance was submitted, so the history never holds a user turn without its
\* agent turn once a run has ended; a successful run has appended exactly the
\* user turn followed by the agent turn.
C18_HistoryUnchangedOnFailure ==
    \A s \in Sessions :
        /\ pc[s] = "failed" => CompleteExchanges(messages[s])
        /\ pc[s] = END =>
              /\ CompleteExchanges(messages[s])
              /\ messages[s][Len(messages[s]) - 1] = HumanMessage(user_input[s])
              /\ messages[s][Len(messages[s])] = AIMessage(reply[s])

OwnRecord(s) ==
    [ns |-> <<"memories", user_id[s]>>, shape |-> "content_str",
     content |-> "Yuuzaa: " \o user_input[s] \o "\n" \o "Hibiki: " \o response[s]]

OwnExchangeStored ==
    /\ \A s \in Sessions :
          (pc[s] = "manage_memory" /\ pc'[s] = END) =>
              /\ store' = Append(store, OwnRecord(s))
              /\ reply'[s] = response[s]
    /\ store' # store => \E s \in Sessions : pc[s] = "manage_memory" /\ pc'[s] = END

OneCreatePerDone ==
    /\ \A s \in Sessions :
          pc[s] = END =>
              /\ Cardinality(Pos(s, "create")) = 1
              /\ \A i \in Pos(s, "create") : calls[s][i].args = <<OwnRecord(s).content>>
              /\ \E i \in 1..Len(store) : store[i] = OwnRecord(s)
    /\ Len(store) = Successes("s1") + Successes("s2")

\* C19: when two invocations for the same user run at once and their store
\* reads and writes interleave in any order, each invocation that succeeds adds
\* exactly one record, and the record pairs that invocation's own utterance
\* with the reply its own response call returned.
C19_ConcurrentRunsKeepOwnExchange ==
    [] OneCreatePerDone /\ [][OwnExchangeStored]_vars

C19_Witness ==
    /\ pc["s1"] = END /\ pc["s2"] = END
    /\ user_id["s1"] = user_id["s2"]
    /\ user_input["s1"] = "hi" /\ reply["s1"] = "r1"
    /\ user_input["s2"] = "tired" /\ reply["s2"] = "r2"
    /\ store0["s1"] = << >> /\ store0["s2"] = << >>
    /\ store = << OwnRecord("s2"), OwnRecord("s1") >>

====
